---------------------------- MODULE Spec2Model ----------------------------
(***************************************************************************)
(* Model of the chat gateway: ConversationContext (context_manager.py),    *)
(* the four provider clients (api_clients/*.py) and the dispatcher         *)
(* handle_chat_request (main.py).                                          *)
(*                                                                         *)
(* Python values are represented as follows.                               *)
(*   str            a sequence of one-character strings                    *)
(*   Optional[x]    <<>> for None, <<v>> for the value v                   *)
(*   dict message   a heap object [role, content]; lists hold references   *)
(*                  (indices into heap), so that two lists built with      *)
(*                  list(...) share their dicts as they do in Python       *)
(***************************************************************************)
EXTENDS Integers, Sequences, FiniteSets, TLC

\* ------------------------------------------------------------------ bounds
\* number of dict objects a ConversationContext run may allocate
MaxObjs == 4
\* largest depth argument tried
MaxDepth == 3
\* number of messages in a request body
MaxMsgs == 2

\* ----------------------------------------------------------- basic helpers
None == <<>>

Some(v) == <<v>>

Max(a, b) == IF a >= b THEN a ELSE b

Min(a, b) == IF a <= b THEN a ELSE b

Roles == {"system", "user", "assistant"}

\* the dicts a list of references denotes
Deref(h, refs) == [i \in 1..Len(refs) |-> h[refs[i]]]

\* ===========================================================================
\* ConversationContext
\* ===========================================================================

\* add_message, with the new dict stored at the end of the list
add_message_prepend(h, msgs, role, content) ==
    [heap |-> Append(h, [role |-> role, content |-> content]),
     messages |-> <<Len(h) + 1>> \o msgs]

\* self.messages.append({"role": role, "content": content})
add_message(h, msgs, role, content) ==
    [heap |-> Append(h, [role |-> role, content |-> content]),
     messages |-> Append(msgs, Len(h) + 1)]

\* get_context that forgets to put the system message back
get_context_nosys(h, msgs, depth) ==
    IF depth = None \/ depth[1] <= 0
    THEN msgs
    ELSE LET hasSys == msgs # <<>> /\ h[msgs[1]].role = "system"
             actual_messages == IF hasSys THEN Tail(msgs) ELSE msgs
             start_index == Max(0, Len(actual_messages) - depth[1])
         IN  SubSeq(actual_messages, start_index + 1, Len(actual_messages))

\* get_context(depth): a new list; the dicts in it are the stored ones
get_context(h, msgs, depth) ==
    IF depth = None \/ depth[1] <= 0
    THEN msgs
    ELSE LET hasSys == msgs # <<>> /\ h[msgs[1]].role = "system"
             actual_messages == IF hasSys THEN Tail(msgs) ELSE msgs
             start_index == Max(0, Len(actual_messages) - depth[1])
             limited_messages ==
                 SubSeq(actual_messages, start_index + 1, Len(actual_messages))
         IN  IF hasSys THEN <<msgs[1]>> \o limited_messages
                       ELSE limited_messages

\* clear_context(keep_system_prompt): the kept system message is a new dict
clear_context(h, msgs, keep_system_prompt) ==
    IF keep_system_prompt /\ msgs # <<>> /\ h[msgs[1]].role = "system"
    THEN [heap |-> Append(h, [role |-> "system",
                              content |-> h[msgs[1]].content]),
          messages |-> <<Len(h) + 1>>]
    ELSE [heap |-> h, messages |-> <<>>]

\* --------------------------------------------------------------------------
\* State
\* --------------------------------------------------------------------------
VARIABLES
    heap,       \* the message dicts allocated so far
    messages,   \* self.messages of the ConversationContext, a list of references
    returned,   \* the list the last get_context call returned (context runs)
    lastCall,   \* the last ConversationContext method call and its arguments
    settings,   \* config.settings, read once at start-up
    pc,         \* where handle_chat_request stands
    request,    \* the ChatRequest being handled
    api_client, \* the constructed client, None before and on failure
    current_context_for_api, \* the windowed list handed to send_request
    upstream,   \* what the upstream did with the call, None before it
    error,      \* the exception a constructor or send_request raised
    status,     \* the HTTP status of the answer, 0 while there is none
    response,   \* the ChatResponse, None while there is none
    sent,       \* what send_request sent upstream
    sdkCalls,   \* network and SDK calls made while constructing the client
    sendCalls,  \* number of send_request invocations for this request
    loop,       \* the request whose coroutine the event loop runs, 0 if none
    flight      \* the requests in flight on the server: tag and position

ctxVars == <<heap, messages, returned, lastCall>>

loopVars == <<loop, flight>>

reqVars == <<settings, pc, request, api_client, current_context_for_api,
             upstream, error, status, response, sent, sdkCalls, sendCalls,
             loop, flight>>

vars == <<heap, messages, returned, lastCall, settings, pc, request, api_client,
          current_context_for_api, upstream, error, status, response, sent,
          sdkCalls, sendCalls, loop, flight>>

NoRequest ==
    [client_type |-> "", messages |-> <<>>, model_name_override |-> None,
     system_prompt_override |-> None, context_depth |-> None]

\* number of requests the server has in flight at a time
NumRequests == 2

Inflight == 1..NumRequests

\* nothing has arrived at the server
NoFlight == [r \in Inflight |-> [client_type |-> "", at |-> "none"]]

\* no request is being handled
Idle ==
    /\ loop = 0
    /\ flight = NoFlight
    /\ pc = "idle"
    /\ request = NoRequest
    /\ api_client = None
    /\ current_context_for_api = <<>>
    /\ upstream = None
    /\ error = None
    /\ status = 0
    /\ response = None
    /\ sent = None
    /\ sdkCalls = 0
    /\ sendCalls = 0

\* config.py: the values of Settings when nothing is set in the environment
DefaultSettings ==
    [OPENAI_API_KEY |-> <<"k">>, DEEPSEEK_API_KEY |-> <<"k">>,
     GEMINI_API_KEY |-> <<"k">>, DEFAULT_SYSTEM_PROMPT |-> <<"D">>]

\* --------------------------------------------------------------------------
\* A ConversationContext driven through its public methods
\* --------------------------------------------------------------------------
\* message texts used when driving the context
CtxContents == {<<"a">>, <<"b">>}

CtxDepths == {None} \cup {Some(d) : d \in -1..MaxDepth}

NoCall == [name |-> "init", role |-> "", depth |-> None, keep |-> FALSE]

\* ConversationContext() : __init__ with system_prompt = None
InitCtx ==
    /\ heap = <<>>
    /\ messages = <<>>
    /\ returned = <<>>
    /\ lastCall = NoCall
    /\ settings = DefaultSettings
    /\ Idle

AddMessage ==
    \E role \in Roles, content \in CtxContents :
        /\ Len(heap) < MaxObjs
        /\ LET r == add_message(heap, messages, role, content)
           IN  /\ heap' = r.heap
               /\ messages' = r.messages
        /\ lastCall' = [NoCall EXCEPT !.name = "add_message", !.role = role]
        /\ UNCHANGED returned
        /\ UNCHANGED reqVars

GetContext ==
    \E depth \in CtxDepths :
        /\ returned' = get_context(heap, messages, depth)
        /\ lastCall' = [NoCall EXCEPT !.name = "get_context", !.depth = depth]
        /\ UNCHANGED <<heap, messages>>
        /\ UNCHANGED reqVars

ClearContext ==
    \E keep \in BOOLEAN :
        /\ LET r == clear_context(heap, messages, keep)
           IN  /\ Len(r.heap) <= MaxObjs
               /\ heap' = r.heap
               /\ messages' = r.messages
        /\ lastCall' = [NoCall EXCEPT !.name = "clear_context", !.keep = keep]
        /\ UNCHANGED returned
        /\ UNCHANGED reqVars

NextCtx == AddMessage \/ GetContext \/ ClearContext

SpecCtx == InitCtx /\ [][NextCtx]_vars

\* ------------------------------------------------------------ C1 and C2
IsSystem(m) == m.role = "system"

NotSystem(m) == m.role # "system"

\* the last k elements of s
LastK(s, k) == SubSeq(s, Len(s) - k + 1, Len(s))

\* what the windowing rule promises for the dicts ms and the depth argument
ClaimedExport(ms, depth) ==
    IF depth = None \/ depth[1] <= 0
    THEN ms
    ELSE LET sys == SelectSeq(ms, IsSystem)
             rest == SelectSeq(ms, NotSystem)
             N == Len(ms)
             systemCount == Len(sys)
         IN  (IF sys # <<>> THEN <<sys[1]>> ELSE <<>>)
             \o LastK(rest, Min(depth[1], N - systemCount))

\* at most one system message, and only at position 0
WellFormed(ms) == \A i \in 1..Len(ms) : ms[i].role = "system" => i = 1

\* C1 as stated: for every context contents and every depth, get_context
\* returns the full sequence when depth is None or <= 0, and otherwise the
\* system message (if present) followed by the last min(depth, N -
\* systemCount) non-system messages in their original order.
C1_Original ==
    lastCall.name = "get_context" =>
        Deref(heap, returned) = ClaimedExport(Deref(heap, messages), lastCall.depth)

\* C1 amended: the same, for every context whose only system message (if
\* any) is at position 0.
C1_Windowing ==
    (lastCall.name = "get_context" /\ WellFormed(Deref(heap, messages))) =>
        Deref(heap, returned) = ClaimedExport(Deref(heap, messages), lastCall.depth)

\* a get_context call that cut messages off behind a leading system message
C1_Witness ==
    /\ lastCall.name = "get_context"
    /\ lastCall.depth # None
    /\ lastCall.depth[1] >= 1
    /\ WellFormed(Deref(heap, messages))
    /\ Len(messages) >= 3
    /\ heap[messages[1]].role = "system"
    /\ Len(returned) = lastCall.depth[1] + 1
    /\ Len(returned) < Len(messages)

\* C2 as stated: after any sequence of add_message, get_context and
\* clear_context calls, with any roles in any order, the stored sequence has
\* at most one system message and it is at position 0.
C2_Original == WellFormed(Deref(heap, messages))

\* C2 amended: every call keeps "at most one system message, at position 0",
\* except add_message with role system on a context that is not empty.
C2_SystemFirst ==
    [][(/\ WellFormed(Deref(heap, messages))
        /\ ~(/\ lastCall'.name = "add_message"
             /\ lastCall'.role = "system"
             /\ messages # <<>>))
       => WellFormed(Deref(heap', messages'))]_vars

\* a context with a leading system message that kept it through clear_context
\* and then took a further message
C2_Witness ==
    /\ lastCall.name = "add_message"
    /\ lastCall.role # "system"
    /\ Len(messages) = 2
    /\ heap[messages[1]].role = "system"
    /\ Len(heap) >= 3
    /\ WellFormed(Deref(heap, messages))


\* ===========================================================================
\* Strings, exceptions
\* ===========================================================================
Whitespace == {" ", "\n"}

RECURSIVE lstrip(_)
lstrip(s) == IF s # <<>> /\ Head(s) \in Whitespace THEN lstrip(Tail(s)) ELSE s

RECURSIVE rstrip(_)
rstrip(s) ==
    IF s # <<>> /\ s[Len(s)] \in Whitespace
    THEN rstrip(SubSeq(s, 1, Len(s) - 1))
    ELSE s

\* str.strip()
strip(s) == rstrip(lstrip(s))

\* An exception: its class, its status_code (NoStatus when the class has
\* none) and the substrings of interest that str(e) contains.
NoStatus == -1

Exc(class, status_code, markers) ==
    [class |-> class, status_code |-> status_code, markers |-> markers]

\* exceptions.py: the three subclasses of APIClientError
OwnClasses ==
    {"APIClientError", "APIConnectionError", "APIResponseError", "InvalidAPIKeyError"}

\* APIResponseError.__init__: str(e) is "API Error {status_code}: {message}"
APIResponseError(status_code, markers) ==
    Exc("APIResponseError", status_code,
        markers \cup (IF status_code = 404 THEN {"404"} ELSE {}))

APIConnectionError(markers) == Exc("APIConnectionError", NoStatus, markers)

InvalidAPIKeyError(markers) == Exc("InvalidAPIKeyError", NoStatus, markers)

APIClientError(markers) == Exc("APIClientError", NoStatus, markers)

\* result of a constructor or of get_api_client
Raised(e, calls) == [raised |-> Some(e), client |-> None, calls |-> calls]

Built(c, calls) == [raised |-> None, client |-> Some(c), calls |-> calls]

\* ===========================================================================
\* Provider clients: construction
\* ===========================================================================
\* what the SDK does while a client is constructed
\*   sdk_init  openai.OpenAI(...) returns or raises
\*   listing   genai.list_models(): the model is listed with generateContent,
\*             is not among the usable models, or the call raises
\*   markers   substrings of the raised SDK error
ConstructEnvs ==
    [sdk_init : {"ok", "raises"},
     listing : {"found", "missing", "raises"},
     markers : {{}, {"404"}, {"API_KEY_INVALID"}}]

\* the name genai reports for a listed model
ListedName(model_name) ==
    CASE model_name = "gemini-2.0-flash" -> "models/gemini-2.0-flash"
      [] model_name = "m" -> "models/m"
      [] OTHER -> model_name

\* OpenAIClient.__init__(api_key = settings.OPENAI_API_KEY, model = "gpt-3.5-turbo")
OpenAIClient_init(api_key, env) ==
    IF api_key = <<>>
    THEN Raised(InvalidAPIKeyError({}), 0)
    ELSE IF env.sdk_init = "raises"
         THEN Raised(APIClientError(env.markers), 1)
         ELSE Built([cls |-> "openai", api_key |-> api_key,
                     model |-> "gpt-3.5-turbo", model_name |-> None], 1)

\* DeepSeekClient.__init__(api_key = settings.DEEPSEEK_API_KEY, model = "deepseek-chat")
DeepSeekClient_init(api_key) ==
    IF api_key = <<>>
    THEN Raised(InvalidAPIKeyError({}), 0)
    ELSE Built([cls |-> "deepseek", api_key |-> api_key,
                model |-> "deepseek-chat", model_name |-> None], 0)

\* GeminiClient._check_model_availability with list_models: one SDK call
Gemini_check_model_availability(model_name, env) ==
    CASE env.listing = "found" -> [raised |-> None, model_name |-> ListedName(model_name)]
      [] env.listing = "missing" ->
            [raised |-> Some(APIClientError({"not found"})), model_name |-> model_name]
      [] env.listing = "raises" ->
            [raised |-> Some(APIClientError(env.markers)), model_name |-> model_name]

\* a GeminiClient.__init__ that looks at the key only after configuring genai
GeminiClient_init_latecheck(api_key, model_name, env) ==
    LET chk == Gemini_check_model_availability(model_name, env)
    IN  IF api_key = <<>>
        THEN Raised(InvalidAPIKeyError({}), 2)
        ELSE IF chk.raised # None
             THEN Raised(chk.raised[1], 2)
             ELSE Built([cls |-> "gemini", api_key |-> api_key, model |-> "",
                         model_name |-> Some(chk.model_name)], 2)

\* GeminiClient.__init__(api_key = settings.GEMINI_API_KEY, model_name):
\* genai.configure and genai.list_models are the two SDK calls
GeminiClient_init(api_key, model_name, env) ==
    IF api_key = <<>>
    THEN Raised(InvalidAPIKeyError({}), 0)
    ELSE LET chk == Gemini_check_model_availability(model_name, env)
         IN  IF chk.raised # None
             THEN Raised(chk.raised[1], 2)
             ELSE Built([cls |-> "gemini", api_key |-> api_key, model |-> "",
                         model_name |-> Some(chk.model_name)], 2)

\* OllamaClient.__init__(model_name = "qwen2.5:7b"): no credential
OllamaClient_init(model_name) ==
    Built([cls |-> "ollama", api_key |-> <<>>, model |-> "",
           model_name |-> Some(model_name)], 0)

\* ===========================================================================
\* Dispatcher: get_api_client
\* ===========================================================================
ClientTypes == {"openai", "deepseek", "gemini", "ollama"}

\* tags a caller may write in client_type
RawTags == ClientTypes \cup {" OpenAI ", "mistral"}

\* client_type.strip().lower() on the tags used here
strip_lower(client_type) ==
    CASE client_type = " OpenAI " -> "openai"
      [] client_type = "GEMINI" -> "gemini"
      [] OTHER -> client_type

\* get_api_client(client_type, model_name_override); an override that is
\* None or empty leaves the constructor's default model
get_api_client(client_type, model_name_override, cfg, env) ==
    LET tag == strip_lower(client_type)
        overridden == model_name_override # None /\ model_name_override[1] # ""
    IN  CASE tag = "openai" -> OpenAIClient_init(cfg.OPENAI_API_KEY, env)
          [] tag = "deepseek" -> DeepSeekClient_init(cfg.DEEPSEEK_API_KEY)
          [] tag = "gemini" ->
                GeminiClient_init(cfg.GEMINI_API_KEY,
                    IF overridden THEN model_name_override[1] ELSE "gemini-2.0-flash",
                    env)
          [] tag = "ollama" ->
                OllamaClient_init(
                    IF overridden THEN model_name_override[1] ELSE "qwen2.5:7b")
          [] OTHER -> Raised(APIClientError({}), 0)

\* ===========================================================================
\* Provider clients: send_request
\* ===========================================================================
\* What the upstream service (through its SDK or HTTP library) does with one
\* call:
\*   kind "reply"   a parsed reply; body says which fields it carries
\*   kind "http"    an HTTP answer with a status and a body
\*   kind "raises"  the library raises an exception of the given class
Up(kind, class, code, body, text, markers) ==
    [kind |-> kind, class |-> class, status |-> code, body |-> body,
     text |-> text, markers |-> markers]

ReplyText == <<"R">>

\* openai: chat.completions.create returns a completion or raises
OpenAIUpstreams ==
    {Up("reply", "", 200, "content", ReplyText, {}),
     Up("reply", "", 200, "empty_content", <<>>, {}),
     Up("reply", "", 200, "no_choices", <<>>, {}),
     Up("raises", "APITimeoutError", NoStatus, "", <<>>, {}),
     Up("raises", "APIConnectionError", NoStatus, "", <<>>, {}),
     Up("raises", "BadRequestError", 400, "", <<>>, {}),
     Up("raises", "AuthenticationError", 401, "", <<>>, {}),
     Up("raises", "PermissionDeniedError", 403, "", <<>>, {}),
     Up("raises", "NotFoundError", 404, "", <<>>, {}),
     Up("raises", "RateLimitError", 429, "", <<>>, {}),
     Up("raises", "InternalServerError", 500, "", <<>>, {}),
     Up("raises", "Exception", NoStatus, "", <<>>, {})}

\* httpx: client.post returns a response or raises a RequestError
DeepSeekUpstreams ==
    {Up("http", "", 200, b, IF b = "content" THEN ReplyText ELSE <<>>, {}) :
        b \in {"content", "empty_content", "no_choices", "not_json"}}
    \cup {Up("http", "", st, "error", <<>>, {}) : st \in {400, 401, 403, 404, 429, 500}}
    \cup {Up("raises", c, NoStatus, "", <<>>, {}) : c \in {"TimeoutException", "ConnectError"}}

\* requests: requests.post returns a response or raises a RequestException
OllamaUpstreams ==
    {Up("http", "", 200, "content", t, {}) : t \in {ReplyText, <<" ">>, <<>>}}
    \cup {Up("http", "", 200, b, <<>>, {}) : b \in {"error", "no_fields", "not_json"}}
    \cup {Up("http", "", st, "error", <<>>, {}) : st \in {400, 404, 429, 500}}
    \cup {Up("raises", c, NoStatus, "", <<>>, {}) : c \in {"Timeout", "ConnectionError"}}

\* google.generativeai: generate_content returns a response or raises
GeminiUpstreams ==
    {Up("reply", "", 200, "content", ReplyText, {}),
     Up("reply", "", 200, "blocked", <<>>, {}),
     Up("reply", "", 200, "empty_content", <<>>, {}),
     Up("raises", "InvalidArgument", 400, "", <<>>, {"API_KEY_INVALID"}),
     Up("raises", "PermissionDenied", 403, "", <<>>, {"PERMISSION_DENIED"}),
     Up("raises", "NotFound", 404, "", <<>>, {"404", "is not found for API version"}),
     Up("raises", "ResourceExhausted", 429, "", <<>>, {}),
     Up("raises", "DeadlineExceeded", 504, "", <<>>, {}),
     Up("raises", "ServiceUnavailable", 503, "", <<>>, {})}

Upstreams(cls) ==
    CASE cls = "openai" -> OpenAIUpstreams
      [] cls = "deepseek" -> DeepSeekUpstreams
      [] cls = "gemini" -> GeminiUpstreams
      [] cls = "ollama" -> OllamaUpstreams

\* the upstream answered with status 429
Answers429(u) == u.kind \in {"http", "raises"} /\ u.status = 429

\* the call to the upstream timed out
TimesOut(u) ==
    /\ u.kind = "raises"
    /\ u.class \in {"APITimeoutError", "TimeoutException", "Timeout", "DeadlineExceeded"}

\* result of send_request: the heap after the call, what was sent upstream,
\* and either the returned text or the raised exception
Returns(h, payload, text) ==
    [heap |-> h, sent |-> payload, raised |-> None, text |-> text]

Raises(h, payload, e) ==
    [heap |-> h, sent |-> payload, raised |-> Some(e), text |-> <<>>]

\* ---------------------------------------------------------------- OpenAI
\* the openai exception classes a class derives from
OpenAIBases(class) ==
    CASE class = "APITimeoutError" -> {"APITimeoutError", "APIConnectionError"}
      [] class = "APIConnectionError" -> {"APIConnectionError"}
      [] class = "Exception" -> {}
      [] OTHER -> {class, "APIStatusError"}

\* the except clauses of OpenAIClient.send_request, in their order
OpenAI_except(u) ==
    LET bases == OpenAIBases(u.class)
    IN  IF "APIConnectionError" \in bases THEN APIConnectionError({})
        ELSE IF "APIStatusError" \in bases THEN APIResponseError(u.status, {})
        ELSE IF "RateLimitError" \in bases
             THEN APIResponseError(IF u.status # 0 THEN u.status ELSE 429, {})
        ELSE IF "AuthenticationError" \in bases THEN InvalidAPIKeyError({})
        ELSE APIClientError({})

\* OpenAIClient.send_request: the list is passed to the SDK as it is
OpenAI_send_request(h, msgs, u) ==
    LET payload == [messages |-> Deref(h, msgs)]
    IN  IF u.kind = "raises"
        THEN Raises(h, payload, OpenAI_except(u))
        ELSE IF u.body = "content" /\ u.text # <<>>
             THEN Returns(h, payload, u.text)
             \* raised inside the try and re-raised by the last except clause
             ELSE Raises(h, payload, APIResponseError(0, {}))

\* -------------------------------------------------------------- DeepSeek
\* DeepSeekClient.send_request; an APIResponseError or ValueError raised
\* inside the try reaches "except Exception" and leaves as APIClientError
DeepSeek_send_request(h, msgs, u) ==
    LET payload == [messages |-> Deref(h, msgs)]
    IN  IF u.kind = "raises"
        THEN Raises(h, payload, APIConnectionError({}))
        ELSE IF ~(u.status \in 200..299)
             THEN Raises(h, payload, APIResponseError(u.status, {}))
             ELSE IF u.body = "content" /\ u.text # <<>>
                  THEN Returns(h, payload, u.text)
                  ELSE Raises(h, payload, APIClientError({}))

\* ---------------------------------------------------------------- Ollama
\* str.capitalize() of a role
capitalize(role) ==
    CASE role = "system" -> "System"
      [] role = "user" -> "User"
      [] role = "assistant" -> "Assistant"

RECURSIVE join_newline(_)
\* "\n".join(parts)
join_newline(parts) ==
    IF parts = <<>> THEN <<>>
    ELSE IF Len(parts) = 1 THEN parts[1]
    ELSE parts[1] \o <<"\n">> \o join_newline(Tail(parts))

\* a payload whose prompt still holds the leading system message
Ollama_payload_inline(h, msgs, model_name) ==
    LET hasSys == msgs # <<>> /\ h[msgs[1]].role = "system"
        system_prompt_content == IF hasSys THEN Some(h[msgs[1]].content) ELSE None
        prompt_parts ==
            [i \in 1..Len(msgs) |->
                <<capitalize(h[msgs[i]].role), ":", " ">> \o h[msgs[i]].content]
        joined == join_newline(prompt_parts)
        sysTruthy == system_prompt_content # None /\ system_prompt_content[1] # <<>>
        full_prompt == IF joined = <<>> /\ sysTruthy THEN <<"Hello">> ELSE joined
    IN  [model |-> model_name, prompt |-> full_prompt,
         system |-> IF sysTruthy THEN system_prompt_content ELSE None]

\* the payload OllamaClient.send_request builds; works on a copy of the list
Ollama_payload(h, msgs, model_name) ==
    LET hasSys == msgs # <<>> /\ h[msgs[1]].role = "system"
        system_prompt_content == IF hasSys THEN Some(h[msgs[1]].content) ELSE None
        processed_messages == IF hasSys THEN Tail(msgs) ELSE msgs
        prompt_parts ==
            [i \in 1..Len(processed_messages) |->
                <<capitalize(h[processed_messages[i]].role), ":", " ">>
                \o h[processed_messages[i]].content]
        joined == join_newline(prompt_parts)
        sysTruthy == system_prompt_content # None /\ system_prompt_content[1] # <<>>
        full_prompt == IF joined = <<>> /\ sysTruthy THEN <<"Hello">> ELSE joined
    IN  [model |-> model_name, prompt |-> full_prompt,
         system |-> IF sysTruthy THEN system_prompt_content ELSE None]

\* OllamaClient.send_request
Ollama_send_request(h, msgs, model_name, u) ==
    LET payload == Ollama_payload(h, msgs, model_name)
    IN  IF u.kind = "raises"
        THEN Raises(h, payload, APIConnectionError({}))
        \* raise_for_status: HTTPError is a RequestException
        ELSE IF u.status \in 400..599
             THEN Raises(h, payload, APIConnectionError({}))
             ELSE IF u.body = "not_json"
                  THEN Raises(h, payload, APIResponseError(u.status, {}))
                  ELSE IF u.body = "content" /\ u.text # <<>>
                       THEN Returns(h, payload, strip(u.text))
                       \* the APIResponseError raised inside the try leaves
                       \* through "except Exception" as APIClientError
                       ELSE Raises(h, payload, APIClientError({}))

\* ---------------------------------------------------------------- Gemini
GeminiKeyMarkers ==
    {"API_KEY_INVALID", "API_KEY_EXPIRED", "API_KEY_BLOCKED", "PERMISSION_DENIED"}

GeminiNotFoundMarkers ==
    {"is not found for API version", "Call ListModels", "could not be found"}

\* the "except Exception" block of GeminiClient.send_request
Gemini_except(e) ==
    IF e.markers \cap GeminiKeyMarkers # {}
    THEN InvalidAPIKeyError(e.markers)
    ELSE IF e.markers \cap GeminiNotFoundMarkers # {}
         THEN APIResponseError(404, e.markers \cup {"not found"})
         ELSE IF e.class \in OwnClasses THEN e
         ELSE APIClientError(e.markers)

\* the text of the added closing user turn (a Russian word for "continue")
ContinueTurn == <<"Continue">>

\* a preprocessing that never merges: the system text always becomes a
\* turn of its own
Gemini_preprocess_nomerge(h, msgs) ==
    LET hasSys == msgs # <<>> /\ h[msgs[1]].role = "system"
        popped == IF hasSys THEN Tail(msgs) ELSE msgs
        lead == IF hasSys /\ h[msgs[1]].content # <<>>
                THEN <<[role |-> "user", parts |-> <<h[msgs[1]].content>>]>>
                ELSE <<>>
        contents ==
            lead \o [i \in 1..Len(popped) |->
                        [role |-> IF h[popped[i]].role = "user" THEN "user" ELSE "model",
                         parts |-> <<h[popped[i]].content>>]]
        contents_for_api ==
            IF contents = <<>>
            THEN <<[role |-> "user", parts |-> <<(<<"Hello">>)>>]>>
            ELSE IF contents[Len(contents)].role # "user"
                 THEN Append(contents, [role |-> "user", parts |-> <<(<<"Continue">>)>>])
                 ELSE contents
    IN  [heap |-> h, contents_for_api |-> contents_for_api]

\* The preprocessing of GeminiClient.send_request.  processed_messages is a
\* copy of the list, not of the dicts: writing the merged text into
\* processed_messages[0] writes into the caller's dict.
Gemini_preprocess(h, msgs) ==
    LET hasSys == msgs # <<>> /\ h[msgs[1]].role = "system"
        system_instruction_content == IF hasSys THEN Some(h[msgs[1]].content) ELSE None
        popped == IF hasSys THEN Tail(msgs) ELSE msgs
        sysTruthy ==
            system_instruction_content # None /\ system_instruction_content[1] # <<>>
        merged ==
            IF ~sysTruthy THEN [heap |-> h, processed |-> popped]
            ELSE IF popped # <<>> /\ h[popped[1]].role = "user"
            THEN [heap |-> [h EXCEPT ![popped[1]].content =
                               system_instruction_content[1] \o <<"\n", "\n">> \o @],
                  processed |-> popped]
            ELSE IF popped = <<>>
            THEN [heap |-> Append(h, [role |-> "user",
                                      content |-> system_instruction_content[1]]),
                  processed |-> <<Len(h) + 1>>]
            ELSE [heap |-> Append(h, [role |-> "user",
                                      content |-> system_instruction_content[1]]),
                  processed |-> <<Len(h) + 1>> \o popped]
        contents ==
            [i \in 1..Len(merged.processed) |->
                [role |-> IF merged.heap[merged.processed[i]].role = "user"
                          THEN "user" ELSE "model",
                 parts |-> <<merged.heap[merged.processed[i]].content>>]]
        contents_for_api ==
            IF contents = <<>>
            THEN <<[role |-> "user", parts |-> <<(<<"Hello">>)>>]>>
            ELSE IF contents[Len(contents)].role # "user"
                 THEN Append(contents, [role |-> "user", parts |-> <<ContinueTurn>>])
                 ELSE contents
    IN  [heap |-> merged.heap, contents_for_api |-> contents_for_api]

\* GeminiClient.send_request
Gemini_send_request(h, msgs, model_name, u) ==
    LET pre == Gemini_preprocess(h, msgs)
        payload == [model |-> model_name, contents |-> pre.contents_for_api]
    IN  IF u.kind = "raises"
        THEN Raises(pre.heap, payload, Gemini_except(Exc(u.class, NoStatus, u.markers)))
        ELSE IF u.body = "content" /\ u.text # <<>>
             THEN Returns(pre.heap, payload, u.text)
             ELSE Raises(pre.heap, payload, Gemini_except(APIResponseError(0, {})))

\* api_client.send_request(messages) for the constructed client
send_request(client, h, msgs, u) ==
    CASE client.cls = "openai" -> OpenAI_send_request(h, msgs, u)
      [] client.cls = "deepseek" -> DeepSeek_send_request(h, msgs, u)
      [] client.cls = "gemini" -> Gemini_send_request(h, msgs, client.model_name[1], u)
      [] client.cls = "ollama" -> Ollama_send_request(h, msgs, client.model_name[1], u)

\* ===========================================================================
\* Dispatcher: handle_chat_request
\* ===========================================================================
\* largest context_depth a request carries
MaxReqDepth == 2

\* the messages a request body is made of
BodyMessages ==
    {[role |-> "system", content |-> <<"S">>],
     [role |-> "system", content |-> <<" ">>],
     [role |-> "user", content |-> <<"U">>],
     [role |-> "assistant", content |-> <<"A">>]}

BodySeqs == UNION {[1..n -> BodyMessages] : n \in 0..MaxMsgs}

\* ChatRequest
Requests ==
    [client_type : RawTags,
     messages : BodySeqs,
     model_name_override : {None, Some("m")},
     system_prompt_override : {None, Some(<<>>), Some(<<"O">>)},
     context_depth : {None} \cup {Some(d) : d \in 0..MaxReqDepth}]

\* Settings: each credential may be empty, and so may the default instruction
SettingsChoices ==
    [OPENAI_API_KEY : {<<>>, <<"k">>},
     DEEPSEEK_API_KEY : {<<>>, <<"k">>},
     GEMINI_API_KEY : {<<>>, <<"k">>},
     DEFAULT_SYSTEM_PROMPT : {<<>>, <<"D">>}]

\* a mapping of construction failures that has no 404
ConstructStatus_no404(e) ==
    IF e.class = "InvalidAPIKeyError" THEN 401
    ELSE IF e.class \in OwnClasses THEN 400
    ELSE 500

\* the HTTPException raised when get_api_client fails
ConstructStatus(e) ==
    IF e.class = "InvalidAPIKeyError" THEN 401
    ELSE IF e.class \in OwnClasses
         THEN IF "not found" \in e.markers \/ "404" \in e.markers THEN 404 ELSE 400
         ELSE 500

\* a mapping of send_request failures without the 401/403 branch
DispatchStatus_noauth(e) ==
    IF e.class = "APIResponseError"
    THEN IF e.status_code = 404 THEN 404
         ELSE IF e.status_code = 429 THEN 429
         ELSE IF 400 <= e.status_code /\ e.status_code < 500 THEN 400
         ELSE 500
    ELSE IF e.class = "APIConnectionError" THEN 503
    ELSE 500

\* the HTTPException raised when send_request fails: the except clauses of
\* handle_chat_request after the call
DispatchStatus(e) ==
    IF e.class = "APIResponseError"
    THEN IF e.status_code = 401 \/ e.status_code = 403 THEN 401
         ELSE IF e.status_code = 404 THEN 404
         ELSE IF e.status_code = 429 THEN 429
         ELSE IF 400 <= e.status_code /\ e.status_code < 500 THEN 400
         ELSE 500
    ELSE IF e.class = "APIConnectionError" THEN 503
    ELSE 500

RECURSIVE scan_messages(_, _, _, _)
\* the loop over request.messages when there is no override: the first
\* system message gives the instruction, later ones are only logged
scan_messages(msgs, found_system_in_messages, system_prompt_to_use, input_messages) ==
    IF msgs = <<>>
    THEN [found |-> found_system_in_messages,
          system_prompt_to_use |-> system_prompt_to_use,
          input_messages |-> input_messages]
    ELSE IF Head(msgs).role = "system"
         THEN IF ~found_system_in_messages
              THEN scan_messages(Tail(msgs), TRUE, Some(Head(msgs).content),
                                 input_messages)
              ELSE scan_messages(Tail(msgs), found_system_in_messages,
                                 system_prompt_to_use, input_messages)
         ELSE scan_messages(Tail(msgs), found_system_in_messages,
                            system_prompt_to_use, Append(input_messages, Head(msgs)))

RECURSIVE drop_system(_, _)
\* the loop over request.messages when an override is given
drop_system(msgs, input_messages) ==
    IF msgs = <<>> THEN input_messages
    ELSE IF Head(msgs).role # "system"
         THEN drop_system(Tail(msgs), Append(input_messages, Head(msgs)))
         ELSE drop_system(Tail(msgs), input_messages)

\* a choice of instruction that lets a body system message win over the override
effective_prompt_bodyfirst(req, cfg) ==
    LET sc == scan_messages(req.messages, FALSE, None, <<>>)
    IN  IF sc.found
        THEN [system_prompt_to_use |-> sc.system_prompt_to_use,
              input_messages |-> sc.input_messages]
        ELSE IF req.system_prompt_override # None
             THEN [system_prompt_to_use |-> req.system_prompt_override,
                   input_messages |-> sc.input_messages]
             ELSE [system_prompt_to_use |-> Some(cfg.DEFAULT_SYSTEM_PROMPT),
                   input_messages |-> sc.input_messages]

\* system_prompt_to_use and input_messages of handle_chat_request
effective_prompt(req, cfg) ==
    IF req.system_prompt_override # None
    THEN [system_prompt_to_use |-> req.system_prompt_override,
          input_messages |-> drop_system(req.messages, <<>>)]
    ELSE LET sc == scan_messages(req.messages, FALSE, None, <<>>)
         IN  [system_prompt_to_use |->
                  IF sc.found THEN sc.system_prompt_to_use
                  ELSE Some(cfg.DEFAULT_SYSTEM_PROMPT),
              input_messages |-> sc.input_messages]

RECURSIVE add_all(_, _)
\* for msg_data in input_messages: context.add_message(...)
add_all(ctx, input_messages) ==
    IF input_messages = <<>> THEN ctx
    ELSE add_all(add_message(ctx.heap, ctx.messages, Head(input_messages).role,
                             Head(input_messages).content),
                 Tail(input_messages))

\* context = ConversationContext() filled from the request
build_context(req, cfg) ==
    LET ep == effective_prompt(req, cfg)
        p == ep.system_prompt_to_use
        empty == [heap |-> <<>>, messages |-> <<>>]
        withSystem ==
            IF p # None /\ p[1] # <<>> /\ strip(p[1]) # <<>>
            THEN add_message(empty.heap, empty.messages, "system", p[1])
            ELSE empty
    IN  add_all(withSystem, ep.input_messages)

\* the check before the call: the 400 is raised only inside the branch taken
\* when the list is empty or holds nothing but system messages
rejects(h, cur) ==
    /\ \/ cur = <<>>
       \/ \A i \in 1..Len(cur) : h[cur[i]].role = "system"
    /\ ~ \E i \in 1..Len(cur) : h[cur[i]].role = "user"

Init ==
    /\ heap = <<>>
    /\ messages = <<>>
    /\ returned = <<>>
    /\ lastCall = NoCall
    /\ settings \in SettingsChoices
    /\ Idle

\* A request arrives.  client_type is declared Literal["openai", "deepseek",
\* "gemini", "ollama"]: a body with any other tag fails the ChatRequest
\* validation and is answered 422 without handle_chat_request being run.
ReceiveRequest ==
    /\ UNCHANGED loopVars
    /\ pc = "idle"
    /\ request' \in Requests
    /\ IF request'.client_type \in ClientTypes
       THEN pc' = "construct" /\ status' = status
       ELSE pc' = "rejected" /\ status' = 422
    /\ UNCHANGED <<heap, messages, returned, lastCall, settings, api_client,
                   current_context_for_api, upstream, error, response,
                   sent, sdkCalls, sendCalls>>

\* api_client = get_api_client(...), and the except clauses around it
ConstructClient ==
    /\ UNCHANGED loopVars
    /\ pc = "construct"
    /\ \E env \in ConstructEnvs :
        LET r == get_api_client(request.client_type, request.model_name_override,
                                settings, env)
        IN  /\ sdkCalls' = r.calls
            /\ api_client' = r.client
            /\ error' = r.raised
            /\ IF r.raised = None
               THEN pc' = "build" /\ status' = status
               ELSE pc' = "failed" /\ status' = ConstructStatus(r.raised[1])
    /\ UNCHANGED <<heap, messages, returned, lastCall, settings, request,
                   current_context_for_api, upstream, response, sent, sendCalls>>

\* the effective instruction and the ConversationContext
BuildContext ==
    /\ UNCHANGED loopVars
    /\ pc = "build"
    /\ LET ctx == build_context(request, settings)
       IN  /\ heap' = ctx.heap
           /\ messages' = ctx.messages
    /\ pc' = "window"
    /\ UNCHANGED <<returned, lastCall, settings, request, api_client,
                   current_context_for_api, upstream, error, status, response,
                   sent, sdkCalls, sendCalls>>

\* current_context_for_api = context.get_context(depth = request.context_depth)
Window ==
    /\ UNCHANGED loopVars
    /\ pc = "window"
    /\ current_context_for_api' = get_context(heap, messages, request.context_depth)
    /\ pc' = "validate"
    /\ UNCHANGED <<heap, messages, returned, lastCall, settings, request,
                   api_client, upstream, error, status, response, sent,
                   sdkCalls, sendCalls>>

\* the check for a user message
Validate ==
    /\ UNCHANGED loopVars
    /\ pc = "validate"
    /\ IF rejects(heap, current_context_for_api)
       THEN pc' = "failed" /\ status' = 400
       ELSE pc' = "dispatch" /\ status' = status
    /\ UNCHANGED <<heap, messages, returned, lastCall, settings, request,
                   api_client, current_context_for_api, upstream, error,
                   response, sent, sdkCalls, sendCalls>>

\* a dispatch that calls send_request again after a connection failure
Dispatch_retry ==
    /\ UNCHANGED loopVars
    /\ pc = "dispatch"
    /\ sendCalls < 2
    /\ \E u \in Upstreams(api_client[1].cls) :
        LET r == send_request(api_client[1], heap, current_context_for_api, u)
        IN  /\ upstream' = Some(u)
            /\ heap' = r.heap
            /\ sent' = Some(r.sent)
            /\ error' = r.raised
            /\ IF r.raised = None
               THEN /\ pc' = "done"
                    /\ status' = 200
                    /\ response' = Some([assistant_response |-> r.text,
                                         client_used |-> request.client_type,
                                         model_used |-> api_client[1].model_name])
               ELSE IF r.raised[1].class = "APIConnectionError" /\ sendCalls = 0
               THEN /\ pc' = "dispatch"
                    /\ status' = status
                    /\ response' = response
               ELSE /\ pc' = "failed"
                    /\ status' = DispatchStatus(r.raised[1])
                    /\ response' = response
    /\ sendCalls' = sendCalls + 1
    /\ UNCHANGED <<messages, returned, lastCall, settings, request, api_client,
                   current_context_for_api, sdkCalls>>

\* send_request in the thread pool, then the ChatResponse or the HTTPException
Dispatch ==
    /\ UNCHANGED loopVars
    /\ pc = "dispatch"
    /\ \E u \in Upstreams(api_client[1].cls) :
        LET r == send_request(api_client[1], heap, current_context_for_api, u)
        IN  /\ upstream' = Some(u)
            /\ heap' = r.heap
            /\ sent' = Some(r.sent)
            /\ error' = r.raised
            /\ IF r.raised = None
               THEN /\ pc' = "done"
                    /\ status' = 200
                    /\ response' = Some([assistant_response |-> r.text,
                                         client_used |-> request.client_type,
                                         model_used |-> api_client[1].model_name])
               ELSE /\ pc' = "failed"
                    /\ status' = DispatchStatus(r.raised[1])
                    /\ response' = response
    /\ sendCalls' = sendCalls + 1
    /\ UNCHANGED <<messages, returned, lastCall, settings, request, api_client,
                   current_context_for_api, sdkCalls>>

\* the answer has gone out; context and client are discarded
Finish ==
    /\ UNCHANGED loopVars
    /\ pc \in {"done", "failed", "rejected"}
    /\ heap' = <<>>
    /\ messages' = <<>>
    /\ pc' = "idle"
    /\ request' = NoRequest
    /\ api_client' = None
    /\ current_context_for_api' = <<>>
    /\ upstream' = None
    /\ error' = None
    /\ status' = 0
    /\ response' = None
    /\ sent' = None
    /\ sdkCalls' = 0
    /\ sendCalls' = 0
    /\ UNCHANGED <<returned, lastCall, settings>>

Next ==
    \/ ReceiveRequest
    \/ ConstructClient
    \/ BuildContext
    \/ Window
    \/ Validate
    \/ Dispatch
    \/ Finish

Spec == Init /\ [][Next]_vars

\* ===========================================================================
\* Properties of the dispatcher and the clients
\* ===========================================================================
Handled == pc \in {"done", "failed"}

\* the request got as far as a constructed client
Constructed == api_client # None

HasUser(ms) == \E i \in 1..Len(ms) : ms[i].role = "user"

\* ----------------------------------------------------------------- C3
\* C3: send_request leaves the list handed to it unchanged: same length,
\* and every message keeps its role and its content.
C3_ListUntouched ==
    [][pc = "dispatch" =>
         Deref(heap', current_context_for_api')
             = Deref(heap, current_context_for_api)]_vars

\* ----------------------------------------------------------------- C4
\* C4: when the windowed list holds no user message, the request ends with
\* status 400 and send_request is never invoked.
C4_NoUserRejected ==
    (/\ pc \in {"dispatch", "done", "failed"}
     /\ Constructed
     /\ ~HasUser(Deref(heap, current_context_for_api)))
    => (pc = "failed" /\ status = 400 /\ sendCalls = 0)

\* ----------------------------------------------------------------- C5
\* the status the mapping is said to give for a failure of send_request
ClaimedStatus(e) ==
    CASE e.class = "APIResponseError" ->
            (CASE e.status_code = 404 -> 404
               [] e.status_code = 429 -> 429
               [] e.status_code \in 400..499 \ {404, 429} -> 400
               [] OTHER -> 500)
      [] e.class = "APIConnectionError" -> 503
      [] OTHER -> 500

\* as ClaimedStatus, with upstream 401 and 403 answered by 401
AmendedStatus(e) ==
    IF e.class = "APIResponseError" /\ e.status_code \in {401, 403}
    THEN 401
    ELSE ClaimedStatus(e)

\* a send_request failure of one of the three categories the mapping names
MappedFailure ==
    /\ pc = "failed"
    /\ sendCalls = 1
    /\ error # None
    /\ error[1].class \in {"APIResponseError", "APIConnectionError", "APIClientError"}

\* C5 as stated: APIResponseError with status s gives 404 for 404, 429 for
\* 429, 400 for every other s in [400, 500), 500 otherwise; a connection
\* failure gives 503 and a client-internal failure 500.
C5_Original == MappedFailure => status = ClaimedStatus(error[1])

\* C5 amended: as stated, except that APIResponseError with status 401 or
\* 403 gives 401.
C5_StatusMapping == MappedFailure => status = AmendedStatus(error[1])

\* an upstream 403 that came back as 401
C5_Witness ==
    /\ MappedFailure
    /\ error[1].class = "APIResponseError"
    /\ error[1].status_code = 403
    /\ status = 401

\* ----------------------------------------------------------------- C6
\* C6: every InvalidAPIKeyError of a client ends as status 401, raised by
\* the constructor or by send_request.
C6_InvalidKeyIs401 ==
    (pc = "failed" /\ error # None /\ error[1].class = "InvalidAPIKeyError")
    => status = 401

\* ----------------------------------------------------------------- C7
\* C7: for each provider, an upstream 429 ends as status 429 and an
\* upstream timeout as status 503.
C7_RateLimitAndTimeout ==
    (Handled /\ upstream # None) =>
        /\ Answers429(upstream[1]) => status = 429
        /\ TimesOut(upstream[1]) => status = 503

\* ----------------------------------------------------------------- C8
\* a reply that arrived but has no usable text
EmptyOrBlocked(u) ==
    \/ u.kind = "reply" /\ u.body \in {"empty_content", "blocked"}
    \/ u.kind = "http" /\ u.status = 200 /\ u.body \in {"empty_content", "content"}
                       /\ strip(u.text) = <<>>

Malformed(u) ==
    \/ EmptyOrBlocked(u)
    \/ u.kind = "reply" /\ u.body # "content"
    \/ u.kind = "http" /\ u.status = 200 /\ u.body # "content"

\* C8: a reply without the expected fields, with an error body, or with an
\* empty or blocked generation makes send_request raise APIResponseError
\* (status 0 when empty or blocked); it neither returns empty text nor
\* raises another category.
C8_MalformedIsResponseError ==
    (Handled /\ upstream # None /\ Malformed(upstream[1])) =>
        /\ error # None
        /\ error[1].class = "APIResponseError"
        /\ EmptyOrBlocked(upstream[1]) => error[1].status_code = 0

\* ----------------------------------------------------------------- C9
\* the instruction a request is said to run under
ClaimedInstruction(req, cfg) ==
    IF req.system_prompt_override # None
    THEN req.system_prompt_override[1]
    ELSE LET idx == {i \in 1..Len(req.messages) : req.messages[i].role = "system"}
         IN  IF idx # {}
             THEN req.messages[CHOOSE i \in idx : \A j \in idx : i <= j].content
             ELSE cfg.DEFAULT_SYSTEM_PROMPT

ClaimedContext(req, cfg) ==
    LET eff == ClaimedInstruction(req, cfg)
    IN  (IF strip(eff) # <<>> THEN <<[role |-> "system", content |-> eff]>> ELSE <<>>)
        \o SelectSeq(req.messages, NotSystem)

\* C9: the context built from a request is the effective instruction
\* (override, else first body system message, else the default) as message
\* 0 when it is not blank, then all non-system messages in their order; with
\* an override every body system message is dropped.
C9_ContextBuilt ==
    pc \in {"window", "validate", "dispatch"} =>
        Deref(heap, messages) = ClaimedContext(request, settings)

\* an override beside a body system message and a further message
C9_Witness ==
    /\ pc = "window"
    /\ request.system_prompt_override = Some(<<"O">>)
    /\ \E i \in 1..Len(request.messages) : request.messages[i].role = "system"
    /\ \E i \in 1..Len(request.messages) : request.messages[i].role # "system"
    /\ Len(messages) = 2
    /\ heap[messages[1]] = [role |-> "system", content |-> <<"O">>]

\* ---------------------------------------------------------------- C10
NeedsCredential == {"openai", "deepseek", "gemini"}

KeyOf(cfg, tag) ==
    CASE tag = "openai" -> cfg.OPENAI_API_KEY
      [] tag = "deepseek" -> cfg.DEEPSEEK_API_KEY
      [] tag = "gemini" -> cfg.GEMINI_API_KEY
      [] OTHER -> <<>>

EmptyCredential ==
    /\ pc \notin {"idle", "construct"}
    /\ request.client_type \in NeedsCredential
    /\ KeyOf(settings, request.client_type) = <<>>

\* C10: constructing OpenAI, DeepSeek or Gemini with an empty credential
\* fails with InvalidAPIKeyError before any network or SDK call: no call has
\* been made, and there is no client.
C10_EmptyKeyFailsFirst ==
    EmptyCredential =>
        /\ pc = "failed"
        /\ error # None
        /\ error[1].class = "InvalidAPIKeyError"
        /\ sdkCalls = 0
        /\ sendCalls = 0
        /\ api_client = None

\* a Gemini request refused for its empty key
C10_Witness ==
    /\ EmptyCredential
    /\ request.client_type = "gemini"
    /\ pc = "failed"
    /\ error # None
    /\ error[1].class = "InvalidAPIKeyError"
    /\ sdkCalls = 0

\* ---------------------------------------------------------------- C11
\* the turn Gemini is sent for a message
GeminiTurn(m) ==
    [role |-> IF m.role = "user" THEN "user" ELSE "model", parts |-> <<m.content>>]

GeminiTurns(ms) == [i \in 1..Len(ms) |-> GeminiTurn(ms[i])]

BlankLine == <<"\n", "\n">>

\* the turns as the claim has them: the system text goes in front of the
\* first user message that remains, wherever it stands
ClaimedGeminiBody(ms) ==
    IF ms = <<>> \/ ms[1].role # "system" \/ ms[1].content = <<>>
    THEN GeminiTurns(IF ms # <<>> /\ ms[1].role = "system" THEN Tail(ms) ELSE ms)
    ELSE LET rest == Tail(ms)
             users == {i \in 1..Len(rest) : rest[i].role = "user"}
         IN  IF users = {}
             THEN <<[role |-> "user", parts |-> <<ms[1].content>>]>> \o GeminiTurns(rest)
             ELSE LET k == CHOOSE i \in users : \A j \in users : i <= j
                  IN  GeminiTurns([rest EXCEPT ![k].content =
                                      ms[1].content \o BlankLine \o @])

\* the turns as the code has them: the system text goes in front of the
\* message that follows it when that one is a user message, and is a
\* leading user turn of its own otherwise
AmendedGeminiBody(ms) ==
    IF ms = <<>> \/ ms[1].role # "system" \/ ms[1].content = <<>>
    THEN GeminiTurns(IF ms # <<>> /\ ms[1].role = "system" THEN Tail(ms) ELSE ms)
    ELSE LET rest == Tail(ms)
         IN  IF rest # <<>> /\ rest[1].role = "user"
             THEN GeminiTurns([rest EXCEPT ![1].content =
                                  ms[1].content \o BlankLine \o @])
             ELSE <<[role |-> "user", parts |-> <<ms[1].content>>]>> \o GeminiTurns(rest)

\* contents is body, closed by one more user turn where body is empty or
\* does not end with a user turn
ClosedByUser(contents, body) ==
    /\ contents # <<>>
    /\ contents[Len(contents)].role = "user"
    /\ IF body # <<>> /\ body[Len(body)].role = "user"
       THEN contents = body
       ELSE /\ Len(contents) = Len(body) + 1
            /\ SubSeq(contents, 1, Len(body)) = body

GeminiCall == pc = "dispatch" /\ api_client[1].cls = "gemini"

RenderedLine(m) ==
    (CASE m.role = "user" -> <<"User">>
       [] m.role = "assistant" -> <<"Assistant">>
       [] m.role = "system" -> <<"System">>)
    \o <<":", " ">> \o m.content

RECURSIVE LinesWithNewlines(_)
\* the lines in their order, one newline between two of them
LinesWithNewlines(ms) ==
    IF Len(ms) = 1 THEN RenderedLine(ms[1])
    ELSE LinesWithNewlines(SubSeq(ms, 1, Len(ms) - 1))
         \o <<"\n">> \o RenderedLine(ms[Len(ms)])

LeadingSystem(ms) == ms # <<>> /\ ms[1].role = "system"

\* prompt and system field as the rule for Ollama gives them
ClaimedOllamaPrompt(ms) ==
    LET rest == IF LeadingSystem(ms) THEN Tail(ms) ELSE ms
    IN  IF rest # <<>> THEN LinesWithNewlines(rest)
        ELSE IF LeadingSystem(ms) /\ ms[1].content # <<>> THEN <<"Hello">>
        ELSE <<>>

ClaimedOllamaSystem(ms) ==
    IF LeadingSystem(ms) /\ ms[1].content # <<>> THEN Some(ms[1].content) ELSE None

OllamaCalled == Handled /\ upstream # None /\ api_client[1].cls = "ollama"

ResolvedModel(c) ==
    IF c.cls \in {"openai", "deepseek"} THEN c.model ELSE c.model_name[1]

\* C13: a successful request answers with the text send_request returned,
\* the requested provider tag, and the model the constructed client resolved.
C13_SuccessResponse ==
    pc = "done" =>
        /\ response # None
        /\ response[1].assistant_response =
               (IF api_client[1].cls = "ollama" THEN strip(upstream[1].text)
                                                ELSE upstream[1].text)
        /\ response[1].client_used = request.client_type
        /\ response[1].model_used = Some(ResolvedModel(api_client[1]))

\* ---------------------------------------------------------------- C14
\* get_api_client raised something other than InvalidAPIKeyError
ConstructionFailed ==
    /\ pc = "failed"
    /\ api_client = None
    /\ error # None
    /\ error[1].class # "InvalidAPIKeyError"

Arrived == pc # "idle"

\* C14 as stated: with the tag trimmed and lower-cased, a request that
\* handle_chat_request ends for an unknown tag, or for a construction failure
\* other than InvalidAPIKeyError, has status 400 whatever the failure text.
C14_Original ==
    (\/ ConstructionFailed
     \/ Handled /\ strip_lower(request.client_type) \notin ClientTypes)
    => status = 400

\* C14 amended: a construction failure other than InvalidAPIKeyError ends
\* with 404 when its text contains "not found" or "404" and with 400
\* otherwise; a tag that is not exactly one of the four lower-case tags
\* (unknown, padded or differently cased) never reaches get_api_client: the
\* request is refused with 422, so the trimming and lower-casing in
\* get_api_client only ever sees tags it leaves as they are.
C14_ConstructionFailure ==
    /\ ConstructionFailed =>
           status = (IF error[1].markers \cap {"not found", "404"} # {}
                     THEN 404 ELSE 400)
    /\ (Arrived /\ request.client_type \notin ClientTypes)
           => (pc = "rejected" /\ status = 422 /\ sdkCalls = 0 /\ sendCalls = 0)
    /\ (Arrived /\ pc # "rejected")
           => strip_lower(request.client_type) = request.client_type

\* a Gemini model that is not listed: the configuration failure is a 404
C14_Witness ==
    /\ ConstructionFailed
    /\ request.client_type = "gemini"
    /\ "not found" \in error[1].markers
    /\ status = 404

\* ---------------------------------------------------------------- C16
\* the order of the steps of handle_chat_request
StepOrder ==
    {<<"idle", "construct">>, <<"idle", "rejected">>,
     <<"construct", "build">>, <<"construct", "failed">>,
     <<"build", "window">>,
     <<"window", "validate">>,
     <<"validate", "dispatch">>, <<"validate", "failed">>,
     <<"dispatch", "done">>, <<"dispatch", "failed">>,
     <<"done", "idle">>, <<"failed", "idle">>, <<"rejected", "idle">>}

\* one outcome: Success with the response, or Failed with one error status
OneOutcome ==
    /\ pc = "done" => /\ status = 200
                      /\ response # None
                      /\ error = None
                      /\ sendCalls = 1
    /\ pc = "failed" => /\ status \in {400, 401, 404, 429, 500, 503}
                        /\ response = None
    /\ pc \in {"construct", "build", "window", "validate", "dispatch"} =>
           /\ status = 0
           /\ response = None
           /\ sendCalls = 0

\* send_request runs at most once, on the client built for the requested tag
SentOnce ==
    /\ sendCalls <= 1
    /\ upstream # None =>
           /\ sendCalls = 1
           /\ api_client # None
           /\ api_client[1].cls = request.client_type
           /\ upstream[1] \in Upstreams(request.client_type)

\* a request under way is never stuck: its next step can be taken, and by
\* StepOrder no step leads back, so at most five steps end it
NeverStuck ==
    pc \in {"construct", "build", "window", "validate", "dispatch"}
        => ENABLED <<Next>>_vars

\* C16: every request handled reaches exactly one terminal outcome, through
\* the steps construct client, build context, window, validate, dispatch in
\* this order; send_request is invoked at most once, on one client, and not
\* again after a failure.
C16_OneRunOneOutcome ==
    /\ [](OneOutcome /\ SentOnce /\ NeverStuck)
    /\ [][pc' # pc => <<pc, pc'>> \in StepOrder]_vars
    /\ [][sendCalls' > sendCalls => (pc = "dispatch" /\ sendCalls = 0)]_vars
    /\ [][Handled => (pc' = pc \/ pc' = "idle")]_vars

\* a request whose single send_request call failed
C16_Witness ==
    /\ pc = "failed"
    /\ sendCalls = 1
    /\ upstream # None
    /\ status = 503

\* ===========================================================================
\* Several requests on the event loop
\* ===========================================================================
\* handle_chat_request is a coroutine: the event loop runs it, one request
\* at a time, from one await to the next.  Its only await is the one around
\* run_in_threadpool(api_client.send_request, ...); everything else,
\* get_api_client included, runs on the loop itself.

\* network calls a constructor makes: GeminiClient.__init__ lists the models
ConstructNetworkCalls(tag, cfg) ==
    IF tag = "gemini" /\ cfg.GEMINI_API_KEY # <<>> THEN 1 ELSE 0

InitLoop ==
    /\ heap = <<>>
    /\ messages = <<>>
    /\ returned = <<>>
    /\ lastCall = NoCall
    /\ settings \in SettingsChoices
    /\ Idle

ServingFrame ==
    UNCHANGED <<heap, messages, returned, lastCall, settings, pc, request,
                api_client, current_context_for_api, upstream, error, status,
                response, sent, sdkCalls, sendCalls>>

\* the loop accepts a request and schedules its handler
Arrive(r) ==
    /\ loop = 0
    /\ flight[r].at = "none"
    /\ \E tag \in ClientTypes :
        flight' = [flight EXCEPT ![r] = [client_type |-> tag, at |-> "accepted"]]
    /\ UNCHANGED loop
    /\ ServingFrame

\* the loop starts the handler: get_api_client runs inline
StartHandler(r) ==
    /\ loop = 0
    /\ flight[r].at = "accepted"
    /\ loop' = r
    /\ flight' = [flight EXCEPT ![r].at =
                     IF ConstructNetworkCalls(flight[r].client_type, settings) > 0
                     THEN "listing" ELSE "constructing"]
    /\ ServingFrame

\* genai.list_models answers, after however long the provider takes
ListingReturns(r) ==
    /\ loop = r
    /\ flight[r].at = "listing"
    /\ flight' = [flight EXCEPT ![r].at = "constructing"]
    /\ UNCHANGED loop
    /\ ServingFrame

\* the handler goes on to its await, or ends with an HTTPException before it
RunToAwait(r) ==
    /\ loop = r
    /\ flight[r].at = "constructing"
    /\ \E goesOn \in BOOLEAN :
        flight' = [flight EXCEPT ![r].at =
                      IF goesOn THEN "in_worker" ELSE "answered"]
    /\ loop' = 0
    /\ ServingFrame

\* send_request returns or raises in its worker thread
WorkerReturns(r) ==
    /\ flight[r].at = "in_worker"
    /\ flight' = [flight EXCEPT ![r].at = "returned"]
    /\ UNCHANGED loop
    /\ ServingFrame

\* the loop resumes the handler, which answers
Resume(r) ==
    /\ loop = 0
    /\ flight[r].at = "returned"
    /\ flight' = [flight EXCEPT ![r].at = "answered"]
    /\ UNCHANGED loop
    /\ ServingFrame

\* the answer has gone out
Depart(r) ==
    /\ flight[r].at = "answered"
    /\ flight' = [flight EXCEPT ![r] = [client_type |-> "", at |-> "none"]]
    /\ UNCHANGED loop
    /\ ServingFrame

NextLoop ==
    \E r \in Inflight :
        \/ Arrive(r)
        \/ StartHandler(r)
        \/ ListingReturns(r)
        \/ RunToAwait(r)
        \/ WorkerReturns(r)
        \/ Resume(r)
        \/ Depart(r)

SpecLoop == InitLoop /\ [][NextLoop]_vars

\* ---------------------------------------------------------------- C15
\* a network call is under way on the thread of the event loop
LoopInNetworkCall == \E r \in Inflight : loop = r /\ flight[r].at = "listing"

\* C15: no outbound provider call, the ones made while constructing the
\* client included, is ever executed on the event loop; all run in a worker.
C15_LoopNeverBlocks == ~LoopInNetworkCall

=============================================================================
